---- MODULE Spec2Model ----
(***************************************************************************)
(* Client-side state machines of the examination system:                   *)
(*   - the attempt page  (src/app/quiz/attempt/[attemptId]/page.tsx)       *)
(*   - the start page    (src/app/quiz/start/[templateId]/page.tsx)        *)
(* A React render with its effects is one atomic step; a network reply, a  *)
(* socket event, a timer callback and a user input are steps of their own. *)
(* A callback scheduled with setTimeout keeps the closure (the values of   *)
(* the render it was created in) until it runs.                            *)
(***************************************************************************)
EXTENDS Integers, Sequences, FiniteSets, Bags, TLC

\* shared by both pages (providers), then the attempt page, then the start page
VARIABLES
    auth,               \* useAuth(): "loading" | "user" | "none"
    isConnected,        \* SocketProvider.isConnected
    connectError,       \* SocketProvider.connectError ("none" = null)
    mounted,            \* the page component is mounted
    nav,                \* the last router.push/replace call: [to, by, id]
    step,               \* the last step taken: [name, issued, outcome, payload]
    \* ---- attempt page ----
    pageState,          \* useState<AttemptPageState>
    answers,            \* useState<AnswerState>
    timeLeft,           \* useState<number | null>  (NoTime = null)
    currentQuestionIndex,
    timerActive,        \* the setInterval of the timer effect is running
    submitTimeouts,     \* pending setTimeout(() => handleSubmit(true), 0): closures
    redirectTimeouts,   \* pending setTimeout(router.replace, 500) of exam_completed
    fetchInFlight,      \* a getActiveAttemptDetails request is pending
    submits,            \* submitAttempt requests in flight: the bag of their payloads
    elapsed,            \* wall clock: whole seconds since the attempt's start time
    srvRole,            \* the role the backend reports for this attempt
    attemptId,          \* parseInt(params.attemptId)  (NaN = not a number)
    timeLimit,          \* attemptData.timeLimit the backend reports for this attempt
    everStarted,        \* history: the page has stored an attempt that counts down
    submitCount,        \* number of submitAttempt requests issued so far
    submitFailed,       \* a submitAttempt request has failed
    \* ---- start page ----
    state,              \* useState<StartPageState>
    roleParam,          \* searchParams.get('role')
    templateId,         \* parseInt(params.templateId)  (NaN = not a number)
    templateReq,        \* a getActiveTemplates request is pending
    startReqs,          \* startAttempt requests in flight: role and template of each
    joinReqs,           \* joinPairing requests in flight: the code each was sent with
    \* ---- timer effect of the attempt page, in milliseconds ----
    startTimestamp,     \* pageState.startTime.getTime()
    nowTimestamp,       \* new Date().getTime()
    limitSeconds,       \* pageState.timeLimitSeconds
    remainingSeconds,   \* the value given to setTimeLeft (NoTime before the effect ran)
    \* ---- socket client (lib/socket-client.ts) and SocketProvider ----
    socketStatus,       \* the module's socket: "none" | "disconnected" | "connecting" | "connected"
    socketCreated,      \* number of io() instances created so far
    listening,          \* the provider's connect/disconnect/connect_error handlers are on
    authOp,             \* the AuthProvider call in flight: "check" | "logout" | "none"
    reconnects,         \* reconnection attempts of the socket since it last connected
    \* ---- ProtectedRoute (components/ProtectedRoute.tsx) ----
    adminOnly,          \* the adminOnly prop
    userRole,           \* user.role of useAuth() (Null while there is no user)
    routeView,          \* what ProtectedRoute renders: "loading" | "nothing" | "children"
    routeNav,           \* the router.push of its effect's last run: "login" | "dashboard" | "none"
    \* ---- listener effects of the pages on the shared socket ----
    page,               \* the page that is mounted: "start" | "attempt" | "none"
    deps,               \* the values the page's last render gave to its listener effects
    pendingEffects,     \* effects whose cleanup has run and whose body has yet to run
    subscriptions,      \* per effect: the events whose unsubscribe its cleanup holds
    socketListeners,    \* the socket's listeners: the bag of [event, by]
    registrations,      \* history: number of on() calls so far
    handled             \* handler calls made for the signal of this step (0 = no signal)

sharedVars  == <<auth, isConnected, connectError, mounted, nav, step>>
attemptVars == <<pageState, answers, timeLeft, currentQuestionIndex, timerActive,
                 submitTimeouts, redirectTimeouts, fetchInFlight, submits, elapsed,
                 srvRole, timeLimit, everStarted, attemptId, submitCount, submitFailed>>
attemptVarsButIndex ==
    <<pageState, answers, timeLeft, timerActive, submitTimeouts, redirectTimeouts,
      fetchInFlight, submits, elapsed, srvRole, timeLimit, everStarted, attemptId, submitCount, submitFailed>>
startVars   == <<state, roleParam, templateId, templateReq, startReqs, joinReqs>>
countdownVars == <<startTimestamp, nowTimestamp, limitSeconds, remainingSeconds>>
listenerVars == <<page, deps, pendingEffects, subscriptions, socketListeners,
                  registrations, handled>>
routeVars   == <<adminOnly, userRole, routeView, routeNav>>
socketVars  == <<socketStatus, socketCreated, listening, authOp, reconnects, routeVars>>
vars        == <<sharedVars, attemptVars, startVars, countdownVars, listenerVars, socketVars>>

----------------------------------------------------------------------------
\* Bounds of the model

\* time limit (seconds) of the template the attempt was created from
TimeLimit == 2
\* submitAttempt requests issued in one run
MaxSubmits == 2
\* pending zero-delay auto-submit callbacks
MaxTimeouts == 2
\* pending delayed redirects of exam_completed
MaxRedirects == 2
\* startAttempt requests in flight
MaxStartsInFlight == 2
\* joinPairing requests in flight
MaxJoinsInFlight == 2

\* time limit (seconds) of the attempts whose countdown is derived in milliseconds
MaxLimit == 3
\* the millisecond clock is followed for this many seconds
MaxSeconds == 4

\* the largest number of clicks on one button handled before the next render
MaxClicks == 2

\* the wall clock is followed until one second after the deadline
MaxClock == TimeLimit + 1

Null == "null"
\* timeLeft = null ("--:--"): no countdown
NoTime == -1
NoError == "none"

----------------------------------------------------------------------------
\* Server data of the attempt

\* attemptData.questions: the question of each slot (the attempt followed here
\* has one elevation and one communication question; the response carries the
\* reference answer and the keywords whatever the role is)
Questions ==
    << [slot_order |-> 1, type |-> "elevation", content |-> "q1", answer |-> "ref1"],
       [slot_order |-> 2, type |-> "communication", content |-> "q2", answer |-> "ref2",
        keywords |-> "kw2"] >>

Slots == { Questions[i].slot_order : i \in 1..Len(Questions) }

\* the values a user types into a field ("" is the untouched field)
FieldValues == {"", "a"}

\* the outcomes of GET /attempts/{id}/active
FetchOutcomes ==
    [kind : {"body"}, status : {"inprogress", "waiting_pair", "completed", "timed_out"},
     owner : {"me", "other"}]
    \cup [kind : {"err409"}, status : {"completed", "timed_out"}, owner : {"me"}]
    \cup [kind : {"err"}, status : {"none"}, owner : {"me"}]

NoOutcome == [kind |-> "none", status |-> "none", owner |-> "me"]

----------------------------------------------------------------------------
\* Attempt page: pure parts

EmptyAnswer == [answerText |-> "", answerCoordX |-> "", answerCoordY |-> ""]

\* a variant of InitialAnswers that skips the last question
InitialAnswersButLast ==
    [s \in { Questions[i].slot_order : i \in 1..(Len(Questions) - 1) } |-> EmptyAnswer]

\* fetchAttemptDetails: the initial answer map, one entry per question
InitialAnswers == [s \in Slots |-> EmptyAnswer]

\* the fields of an answer
AnswerFields == {"answerText", "answerCoordX", "answerCoordY"}

\* reading a property of an object: undefined when the object lacks it
Field(a, f) == IF f \in DOMAIN a THEN a[f] ELSE "undefined"

\* handleAnswerChange: the updated answer map
AnswerChange(ans, slotOrder, field, value) ==
    LET prev == IF slotOrder \in DOMAIN ans THEN ans[slotOrder] ELSE << >> IN
    [s \in DOMAIN ans \cup {slotOrder} |->
        IF s = slotOrder
        THEN [f \in DOMAIN prev \cup {field} |-> IF f = field THEN value ELSE prev[f]]
        ELSE ans[s]]

\* handleSubmit: Object.entries(answers).map(...), the request body
FormatAnswers(ans) ==
    { [slotOrder |-> s, answerText |-> Field(ans[s], "answerText"),
       answerCoordX |-> Field(ans[s], "answerCoordX"),
       answerCoordY |-> Field(ans[s], "answerCoordY")]
      : s \in DOMAIN ans }

\* fetchAttemptDetails: the ownership check on the response body
OwnedByOther(o) == o.owner = "other"

\* a variant of FinishedBody that forgets the timed_out status
FinishedBodyCompletedOnly(status) == status = "completed"

\* fetchAttemptDetails: the status check on the response body
FinishedBody(status) == status = "completed" \/ status = "timed_out"

\* fetchAttemptDetails: the status check on the caught error
FinishedError(status) == status = "completed" \/ status = "timed_out"

\* a variant of StoredRole that loses the role of the response
StoredRoleDropped(r) == Null

\* fetchAttemptDetails: role: attemptData.role || null
StoredRole(r) == r

\* a variant of SubmitBlocked that returns early in every case
SubmitBlockedAlways(c) == TRUE

\* handleSubmit: the early return
SubmitBlocked(c) == c.isSubmitting \/ c.role = "sender"

\* the values handleSubmit closes over (its useCallback dependencies)
Closure(ps, ans) == [isSubmitting |-> ps.isSubmitting, role |-> ps.role, answers |-> ans]

\* the stored attempt is a started one: start time, positive limit, started status
CountsDown(ps) ==
    /\ ps.hasStartTime
    /\ ps.timeLimitSeconds > 0
    /\ ps.status \in {"inprogress", "started"}

\* a variant of NoCountdown that does not look at the time limit
NoCountdownButLimit(ps) ==
    \/ ~ps.hasStartTime
    \/ (ps.status # "inprogress" /\ ps.status # "started")

\* timer effect: the early return that starts no countdown
NoCountdown(ps) ==
    \/ ~ps.hasStartTime
    \/ ps.timeLimitSeconds <= 0
    \/ (ps.status # "inprogress" /\ ps.status # "started")

Max(a, b) == IF a >= b THEN a ELSE b

\* Math.floor(a / b) for b > 0
Floor(a, b) == a \div b

\* a variant of RemainingAt without the clamp at zero
RemainingAtUnclamped(limit, now, start) == limit - Floor(now - start, 1000)

\* timer effect: remainingSeconds from the time limit (s) and the two timestamps (ms)
RemainingAt(limit, now, start) == Max(0, limit - Floor(now - start, 1000))

\* timer effect: remainingSeconds (the clock is kept in whole seconds)
RemainingSeconds(ps, el) == RemainingAt(ps.timeLimitSeconds, el * 1000, 0)

\* timer effect: what one run of the effect leaves behind
TimerEffect(ps, el) ==
    IF NoCountdown(ps)
    THEN [timeLeft |-> NoTime, active |-> FALSE, schedule |-> FALSE]
    ELSE LET r == RemainingSeconds(ps, el) IN
         IF r <= 0 /\ ps.role # "sender"
         THEN [timeLeft |-> r, active |-> FALSE, schedule |-> TRUE]
         ELSE [timeLeft |-> r, active |-> TRUE, schedule |-> FALSE]

\* timer effect: its dependency list changed between two renders
TimerDepsChanged(ps1, ans1, ps2, ans2) ==
    \/ ps1.hasStartTime # ps2.hasStartTime
    \/ ps1.timeLimitSeconds # ps2.timeLimitSeconds
    \/ ps1.status # ps2.status
    \/ ps1.role # ps2.role
    \/ Closure(ps1, ans1) # Closure(ps2, ans2)

\* the render: which of the page's views is shown
View(ps, au, idx) ==
    IF ps.isLoading \/ au = "loading" THEN "loading"
    ELSE IF ps.error # NoError /\ ~ps.isSubmitting THEN "error"
    ELSE IF ps.role = "sender" THEN "sender"
    ELSE IF ~(idx + 1 \in 1..Len(ps.questions)) THEN "noquestion"
    ELSE "form"

\* the question fields that hold reference material
ReferenceFields == {"answer", "keywords"}

\* the question fields the sender view renders for every question
SenderFields == {"slot_order", "type", "content", "answer", "keywords"}

\* a variant of FormFields that also shows the reference answer
FormFieldsWithAnswer == {"slot_order", "type", "content", "answer"}

\* the question fields the answer form renders for the current question
FormFields == {"slot_order", "type", "content"}

\* what the page renders of the questions: pairs of slot order and field
Rendered(ps, au, idx) ==
    LET v == View(ps, au, idx) IN
    IF v = "sender"
    THEN UNION { { <<ps.questions[i].slot_order, f>> :
                     f \in SenderFields \cap DOMAIN ps.questions[i] } :
                 i \in 1..Len(ps.questions) }
    ELSE IF v = "form"
    THEN { <<ps.questions[idx + 1].slot_order, f>> :
             f \in FormFields \cap DOMAIN ps.questions[idx + 1] }
    ELSE {}

\* exam_completed effect: the listener is registered
CompletedListening ==
    mounted /\ auth = "user" /\ isConnected /\ pageState.role = "sender"

\* a variant of CompletedTarget that leaves for the dashboard
CompletedTargetDashboard == "dashboard"

\* exam_completed listener: the target of its delayed redirect
CompletedTarget == "result"

----------------------------------------------------------------------------
\* Steps and navigation (bookkeeping of what the last step did)

NoNav == [to |-> "none", by |-> "none", id |-> 0]

\* the steps whose name the properties below read; the others are recorded as "other"
NamedSteps ==
    {"Init", "FetchReturn", "SubmitFail", "TimeoutFire", "ManualSubmit",
     "StartFail", "JoinFail", "PairingFailed", "StartExamWithoutId", "JoinOk",
     "JoinButton", "JoinEnterKey", "JoinRetryLink", "StartOk",
     "CheckAuthReturn", "LoginOk", "Logout", "LogoutReturn", "Recheck",
     "SocketConnected", "SocketConnectError", "SocketDisconnected"}

Step(name) ==
    [name |-> IF name \in NamedSteps THEN name ELSE "other",
     issued |-> "none", outcome |-> NoOutcome, payload |-> {}]

----------------------------------------------------------------------------
\* Socket provider (src/components/providers/index.tsx)

\* handleConnect
ProviderConnect ==
    /\ auth = "user" /\ ~isConnected
    /\ isConnected' = TRUE
    /\ connectError' = NoError

\* handleDisconnect: the connectError it sets for a disconnect reason
DisconnectError(reason) ==
    IF reason = "io server disconnect" THEN "server disconnect"
    ELSE IF reason = "io client disconnect" THEN connectError
    ELSE "disconnected"

DisconnectReasons == {"io server disconnect", "io client disconnect", "transport close"}

\* handleDisconnect
ProviderDisconnect(reason) ==
    /\ auth = "user" /\ isConnected
    /\ isConnected' = FALSE
    /\ connectError' = DisconnectError(reason)

\* handleConnectError (its closure always holds isConnected = false; one error
\* message is followed, so a repeated connect error leaves connectError as it is)
ProviderConnectError ==
    /\ auth = "user" /\ ~isConnected
    /\ isConnected' = FALSE
    /\ connectError' = "connect error"

----------------------------------------------------------------------------
\* Attempt page: state after construction

InitPageState ==
    [role |-> Null, questions |-> <<>>, hasStartTime |-> FALSE, timeLimitSeconds |-> 0,
     status |-> "loading", isLoading |-> TRUE, error |-> NoError, isSubmitting |-> FALSE]

InitStartState ==
    [templateInfo |-> Null, isLoadingTemplate |-> TRUE, isStartingAttempt |-> FALSE,
     isJoiningPairing |-> FALSE, startError |-> NoError, pairingError |-> NoError,
     attemptId |-> 0, pairingCodeInput |-> <<>>, pairingCodeDisplay |-> Null,
     role |-> Null, isPartnerConnected |-> FALSE]

\* the value of parseInt for a string without a leading number
NaN == -2

DigitChars == <<"0", "1", "2", "3", "4", "5", "6", "7", "8", "9">>

IsDigit(c) == \E i \in 1..Len(DigitChars) : DigitChars[i] = c

DigitOf(c) == (CHOOSE i \in 1..Len(DigitChars) : DigitChars[i] = c) - 1

RECURSIVE ParseDigits(_, _, _)
ParseDigits(s, acc, seen) ==
    IF s = <<>> \/ ~IsDigit(Head(s))
    THEN IF seen THEN acc ELSE NaN
    ELSE ParseDigits(Tail(s), acc * 10 + DigitOf(Head(s)), TRUE)

\* parseInt(params.attemptId): the leading decimal digits, NaN if there are
\* none (route parameters with a sign or leading blanks are not followed)
ParseInt(s) == ParseDigits(s, 0, FALSE)

\* the [attemptId] route parameters followed
AttemptIdParams == {<<"7">>, <<"7", "x">>, <<"x">>, <<"x", "7">>, <<>>}

IsNaN(id) == id = NaN

\* fetchAttemptDetails: the early return instead of the request
FetchSkipped(id, au) == IsNaN(id) \/ au # "user"

\* the values the listener effects of the pages depend on: the provider's socket
\* instance and isConnected, the role, and the start page's isJoiningPairing and
\* pairingCodeDisplay
NoDeps == [socket |-> FALSE, isConnected |-> FALSE, role |-> Null,
           isJoiningPairing |-> FALSE, pairingCodeDisplay |-> Null]

\* the listener effects of the two pages
StartEffects == {"receiver", "sender"}
AttemptEffects == {"completed"}
Effects == StartEffects \cup AttemptEffects

\* the listener effects are not followed: no page has registered anything
ListenersIdle ==
    /\ page = "none" /\ deps = NoDeps /\ pendingEffects = {}
    /\ subscriptions = [e \in Effects |-> {}]
    /\ socketListeners = EmptyBag /\ registrations = 0 /\ handled = 0

\* the socket client is not followed: no socket instance yet
SocketIdle ==
    /\ socketStatus = "none" /\ socketCreated = 0 /\ listening = FALSE
    /\ authOp = "none" /\ reconnects = 0
    /\ adminOnly = FALSE /\ userRole = Null /\ routeView = "loading" /\ routeNav = "none"

\* the timer effect is not followed in milliseconds
CountdownIdle ==
    /\ startTimestamp = 0 /\ nowTimestamp = 0 /\ limitSeconds = 0
    /\ remainingSeconds = NoTime

AttemptInit ==
    /\ auth = "loading" /\ isConnected = FALSE /\ connectError = NoError
    /\ mounted = TRUE /\ nav = NoNav /\ step = Step("Init")
    /\ pageState = InitPageState
    /\ answers = << >>
    /\ timeLeft = NoTime
    /\ currentQuestionIndex = 0
    /\ timerActive = FALSE
    /\ submitTimeouts = <<>>
    /\ redirectTimeouts = 0
    /\ fetchInFlight = FALSE
    /\ submits = EmptyBag
    /\ elapsed \in 0..MaxClock
    /\ srvRole \in {"sender", "receiver", Null}
    /\ attemptId \in {ParseInt(p) : p \in AttemptIdParams}
    /\ timeLimit \in {0, TimeLimit}
    /\ everStarted = FALSE
    /\ submitCount = 0 /\ submitFailed = FALSE
    /\ state = InitStartState /\ roleParam = Null /\ templateReq = FALSE
    /\ templateId = ParseInt(<<"7">>)
    /\ startReqs = <<>> /\ joinReqs = <<>>
    /\ CountdownIdle
    /\ SocketIdle
    /\ ListenersIdle

----------------------------------------------------------------------------
\* Attempt page: render and effects

\* A state update followed by the render and the timer effect. tos are the
\* pending auto-submit callbacks before the effect runs; force says that a
\* dependency changed identity (setAnswers with a fresh object).
Rerender(ps2, ans2, force, tos) ==
    /\ pageState' = ps2
    /\ answers' = ans2
    /\ IF force \/ TimerDepsChanged(pageState, answers, ps2, ans2)
       THEN LET r == TimerEffect(ps2, elapsed) IN
            /\ timeLeft' = r.timeLeft
            /\ timerActive' = r.active
            /\ IF r.schedule
               THEN /\ Len(tos) < MaxTimeouts
                    /\ submitTimeouts' = Append(tos, Closure(ps2, ans2))
               ELSE submitTimeouts' = tos
       ELSE /\ UNCHANGED <<timeLeft, timerActive>>
            /\ submitTimeouts' = tos

\* handleSubmit called with the closure c; tos as in Rerender; how is "auto" or "manual"
HandleSubmit(c, tos, name, how) ==
    IF SubmitBlocked(c)
    THEN /\ submitTimeouts' = tos
         /\ step' = Step(name)
         /\ UNCHANGED <<pageState, answers, timeLeft, timerActive, submits, submitCount>>
    ELSE /\ submitCount < MaxSubmits
         /\ submits' = submits (+) SetToBag({FormatAnswers(c.answers)})
         /\ submitCount' = submitCount + 1
         /\ step' = [Step(name) EXCEPT !.issued = how]
         /\ IF mounted
            THEN Rerender([pageState EXCEPT !.isSubmitting = TRUE, !.error = NoError],
                          answers, FALSE, tos)
            ELSE /\ submitTimeouts' = tos
                 /\ UNCHANGED <<pageState, answers, timeLeft, timerActive>>

\* fetchAttemptDetails up to the request
FetchStart ==
    /\ fetchInFlight' = TRUE
    /\ pageState' = [pageState EXCEPT !.isLoading = TRUE, !.error = NoError]

----------------------------------------------------------------------------
\* Attempt page: steps

\* the auth check resolves; the effect calls fetchAttemptDetails or goes to /login
AuthResolve ==
    /\ auth = "loading" /\ mounted
    /\ \E u \in {"user", "none"} :
         /\ auth' = u
         /\ IF u = "user"
            THEN /\ nav' = nav
                 /\ IF FetchSkipped(attemptId, u)
                    THEN UNCHANGED <<pageState, fetchInFlight>>
                    ELSE FetchStart
            ELSE /\ nav' = [to |-> "login", by |-> "auth", id |-> 0]
                 /\ UNCHANGED <<pageState, fetchInFlight>>
    /\ step' = Step("AuthResolve")
    /\ UNCHANGED <<isConnected, connectError, mounted, answers, timeLeft,
                   currentQuestionIndex, timerActive, submitTimeouts, redirectTimeouts,
                   submits, elapsed, srvRole, timeLimit, everStarted, attemptId, submitCount, submitFailed, startVars, countdownVars, listenerVars, socketVars>>

\* fetchAttemptDetails: the state stored for a usable response body
StoredPageState(ps, o) ==
    [ps EXCEPT !.role = StoredRole(srvRole),
               !.questions = Questions,
               !.hasStartTime = (o.status # "waiting_pair"),
               !.timeLimitSeconds = timeLimit,
               !.status = o.status,
               !.isLoading = FALSE]

\* fetchAttemptDetails: the catch branch for an error that is no finished attempt
LoadFailed(ps) == [ps EXCEPT !.error = "load failed", !.isLoading = FALSE]

\* fetchAttemptDetails: the request returns with outcome o
FetchReturn(o) ==
    /\ fetchInFlight
    /\ fetchInFlight' = FALSE
    /\ step' = [Step("FetchReturn") EXCEPT !.outcome = o]
    /\ IF \/ (o.kind = "body" /\ ~OwnedByOther(o) /\ FinishedBody(o.status))
          \/ (o.kind = "err409" /\ FinishedError(o.status))
       THEN /\ nav' = [to |-> "result", by |-> "fetch", id |-> 0]
            /\ UNCHANGED <<pageState, answers, timeLeft, timerActive, submitTimeouts>>
       ELSE /\ nav' = nav
            /\ IF ~mounted
               THEN UNCHANGED <<pageState, answers, timeLeft, timerActive, submitTimeouts>>
               ELSE IF o.kind = "body" /\ ~OwnedByOther(o)
               THEN Rerender(StoredPageState(pageState, o), InitialAnswers, TRUE,
                             submitTimeouts)
               ELSE Rerender(LoadFailed(pageState), answers, FALSE, submitTimeouts)
    /\ everStarted' = (everStarted \/ CountsDown(pageState'))
    /\ UNCHANGED <<auth, isConnected, connectError, mounted, currentQuestionIndex,
                   redirectTimeouts, submits, elapsed, srvRole, timeLimit, attemptId,
                   submitCount, submitFailed, startVars, countdownVars, listenerVars, socketVars>>

\* the "retry loading" button of the error view
RetryLoad ==
    /\ mounted /\ View(pageState, auth, currentQuestionIndex) = "error"
    /\ ~FetchSkipped(attemptId, auth)
    /\ FetchStart
    /\ step' = Step("RetryLoad")
    /\ UNCHANGED <<auth, isConnected, connectError, mounted, nav, answers, timeLeft,
                   currentQuestionIndex, timerActive, submitTimeouts, redirectTimeouts,
                   submits, elapsed, srvRole, timeLimit, everStarted, attemptId, submitCount, submitFailed, startVars, countdownVars, listenerVars, socketVars>>

\* one second of wall-clock time passes (a zero-delay callback that is pending
\* runs before a second has passed: timers run in the order they fall due)
ClockAdvance ==
    /\ elapsed < MaxClock
    /\ submitTimeouts = <<>>
    /\ elapsed' = elapsed + 1
    /\ step' = Step("ClockAdvance")
    /\ UNCHANGED <<auth, isConnected, connectError, mounted, nav, pageState, answers,
                   timeLeft, currentQuestionIndex, timerActive, submitTimeouts,
                   redirectTimeouts, fetchInFlight, submits, srvRole, timeLimit, everStarted, attemptId, submitCount,
                   submitFailed, startVars, countdownVars, listenerVars, socketVars>>

\* the setInterval callback of the timer effect (an interval never fires early:
\* the local countdown cannot run ahead of the wall clock; a pending zero-delay
\* callback falls due before the next tick)
Tick ==
    /\ mounted /\ timerActive /\ timeLeft # NoTime
    /\ timeLeft > pageState.timeLimitSeconds - elapsed
    /\ submitTimeouts = <<>>
    /\ IF timeLeft <= 1
       THEN /\ timeLeft' = 0
            /\ timerActive' = FALSE
            /\ IF pageState.role # "sender"
               THEN /\ Len(submitTimeouts) < MaxTimeouts
                    /\ submitTimeouts' = Append(submitTimeouts, Closure(pageState, answers))
               ELSE submitTimeouts' = submitTimeouts
       ELSE /\ timeLeft' = timeLeft - 1
            /\ UNCHANGED <<timerActive, submitTimeouts>>
    /\ step' = Step("Tick")
    /\ UNCHANGED <<auth, isConnected, connectError, mounted, nav, pageState, answers,
                   currentQuestionIndex, redirectTimeouts, fetchInFlight, submits,
                   elapsed, srvRole, timeLimit, everStarted, attemptId, submitCount, submitFailed, startVars, countdownVars, listenerVars, socketVars>>

\* the oldest pending setTimeout(() => handleSubmit(true), 0) runs
TimeoutFire ==
    /\ submitTimeouts # <<>>
    /\ HandleSubmit(Head(submitTimeouts), Tail(submitTimeouts), "TimeoutFire", "auto")
    /\ UNCHANGED <<auth, isConnected, connectError, mounted, nav, currentQuestionIndex,
                   redirectTimeouts, fetchInFlight, elapsed, srvRole, timeLimit, everStarted, attemptId, submitFailed,
                   startVars, countdownVars, listenerVars, socketVars>>

\* the submit button of the form (rendered on the last question, disabled while submitting)
ManualSubmit ==
    /\ mounted /\ View(pageState, auth, currentQuestionIndex) = "form"
    /\ currentQuestionIndex = Len(pageState.questions) - 1
    /\ ~pageState.isSubmitting
    /\ HandleSubmit(Closure(pageState, answers), submitTimeouts, "ManualSubmit", "manual")
    /\ UNCHANGED <<auth, isConnected, connectError, mounted, nav, currentQuestionIndex,
                   redirectTimeouts, fetchInFlight, elapsed, srvRole, timeLimit, everStarted, attemptId, submitFailed,
                   startVars, countdownVars, listenerVars, socketVars>>

\* handleSubmit: submitAttempt resolves
SubmitOk ==
    /\ \E p \in BagToSet(submits) : submits' = submits (-) SetToBag({p})
    /\ step' = Step("SubmitOk")
    /\ nav' = [to |-> "result", by |-> "submit", id |-> 0]
    /\ UNCHANGED <<auth, isConnected, connectError, mounted, pageState, answers, timeLeft,
                   currentQuestionIndex, timerActive, submitTimeouts, redirectTimeouts,
                   fetchInFlight, elapsed, srvRole, timeLimit, everStarted, attemptId, submitCount, submitFailed, startVars, countdownVars, listenerVars, socketVars>>

\* handleSubmit: the state stored in the catch branch
SubmitFailed(ps) == [ps EXCEPT !.error = "submit failed", !.isSubmitting = FALSE]

\* handleSubmit: submitAttempt rejects
SubmitFail ==
    /\ \E p \in BagToSet(submits) :
         /\ submits' = submits (-) SetToBag({p})
         /\ step' = [Step("SubmitFail") EXCEPT !.payload = p]
    /\ submitFailed' = TRUE
    /\ IF mounted
       THEN Rerender(SubmitFailed(pageState), answers, FALSE, submitTimeouts)
       ELSE UNCHANGED <<pageState, answers, timeLeft, timerActive, submitTimeouts>>
    /\ UNCHANGED <<auth, isConnected, connectError, mounted, nav, currentQuestionIndex,
                   redirectTimeouts, fetchInFlight, elapsed, srvRole, timeLimit, everStarted, attemptId, submitCount,
                   startVars, countdownVars, listenerVars, socketVars>>

\* the fields the form shows for a question type
FieldsOf(type) ==
    IF type = "coordinate" THEN {"answerCoordX", "answerCoordY"} ELSE {"answerText"}

\* the user types into a field of the current question
EditAnswer ==
    /\ mounted /\ View(pageState, auth, currentQuestionIndex) = "form"
    /\ LET q == pageState.questions[currentQuestionIndex + 1] IN
       \E f \in FieldsOf(q.type), v \in FieldValues :
         /\ Field(IF q.slot_order \in DOMAIN answers THEN answers[q.slot_order]
                  ELSE << >>, f) # v
         /\ Rerender(pageState, AnswerChange(answers, q.slot_order, f, v), FALSE,
                     submitTimeouts)
    /\ step' = Step("EditAnswer")
    /\ UNCHANGED <<auth, isConnected, connectError, mounted, nav, currentQuestionIndex,
                   redirectTimeouts, fetchInFlight, submits, elapsed, srvRole, timeLimit, everStarted, attemptId,
                   submitCount, submitFailed, startVars, countdownVars, listenerVars, socketVars>>

\* handleNextQuestion: the guard reads the index of the render the handler was
\* created in (idx), the update works on the current value (prev)
NextIndex(idx, prev, n) == IF idx < n - 1 THEN prev + 1 ELSE prev

\* handlePrevQuestion: guard on the rendered index, update of the current value
PrevIndex(idx, prev) == IF idx > 0 THEN prev - 1 ELSE prev

\* k clicks on "next question" handled by the handler of one render
RECURSIVE NextClicks(_, _, _, _)
NextClicks(idx, prev, n, k) ==
    IF k = 0 THEN prev ELSE NextClicks(idx, NextIndex(idx, prev, n), n, k - 1)

\* k clicks on "previous question" handled by the handler of one render
RECURSIVE PrevClicks(_, _, _)
PrevClicks(idx, prev, k) ==
    IF k = 0 THEN prev ELSE PrevClicks(idx, PrevIndex(idx, prev), k - 1)

\* the "next question" button (rendered unless on the last question): the
\* clicks that are handled before the page renders again
NextQuestion ==
    /\ mounted /\ View(pageState, auth, currentQuestionIndex) = "form"
    /\ currentQuestionIndex # Len(pageState.questions) - 1
    /\ ~pageState.isSubmitting
    /\ \E k \in 1..MaxClicks :
         currentQuestionIndex' = NextClicks(currentQuestionIndex, currentQuestionIndex,
                                            Len(pageState.questions), k)
    /\ step' = Step("NextQuestion")
    /\ UNCHANGED <<auth, isConnected, connectError, mounted, nav, attemptVarsButIndex,
                   startVars, countdownVars, listenerVars, socketVars>>

\* the "previous question" button
PrevQuestion ==
    /\ mounted /\ View(pageState, auth, currentQuestionIndex) = "form"
    /\ currentQuestionIndex # 0
    /\ ~pageState.isSubmitting
    /\ \E k \in 1..MaxClicks :
         currentQuestionIndex' = PrevClicks(currentQuestionIndex, currentQuestionIndex, k)
    /\ step' = Step("PrevQuestion")
    /\ UNCHANGED <<auth, isConnected, connectError, mounted, nav, attemptVarsButIndex,
                   startVars, countdownVars, listenerVars, socketVars>>

\* socket events of the provider while the attempt page is shown (the page reads
\* isConnected only; connectError is followed in the start page's specification)
AttemptSocketConnect ==
    /\ auth = "user" /\ ~isConnected
    /\ isConnected' = TRUE
    /\ step' = Step("SocketConnect")
    /\ UNCHANGED <<auth, connectError, mounted, nav, attemptVars, startVars, countdownVars, listenerVars, socketVars>>

AttemptSocketDisconnect ==
    /\ auth = "user" /\ isConnected
    /\ isConnected' = FALSE
    /\ step' = Step("SocketDisconnect")
    /\ UNCHANGED <<auth, connectError, mounted, nav, attemptVars, startVars, countdownVars, listenerVars, socketVars>>

\* the exam_completed listener: toast, then setTimeout(router.replace, 500)
ExamCompleted ==
    /\ CompletedListening
    /\ redirectTimeouts < MaxRedirects
    /\ redirectTimeouts' = redirectTimeouts + 1
    /\ step' = Step("ExamCompleted")
    /\ UNCHANGED <<auth, isConnected, connectError, mounted, nav, pageState, answers,
                   timeLeft, currentQuestionIndex, timerActive, submitTimeouts,
                   fetchInFlight, submits, elapsed, srvRole, timeLimit, everStarted, attemptId, submitCount, submitFailed,
                   startVars, countdownVars, listenerVars, socketVars>>

\* the delayed redirect of the exam_completed listener runs
RedirectTimeoutFire ==
    /\ redirectTimeouts > 0
    /\ redirectTimeouts' = redirectTimeouts - 1
    /\ nav' = [to |-> CompletedTarget, by |-> "exam_completed", id |-> 0]
    /\ step' = Step("RedirectTimeoutFire")
    /\ UNCHANGED <<auth, isConnected, connectError, mounted, pageState, answers,
                   timeLeft, currentQuestionIndex, timerActive, submitTimeouts,
                   fetchInFlight, submits, elapsed, srvRole, timeLimit, everStarted, attemptId, submitCount, submitFailed,
                   startVars, countdownVars, listenerVars, socketVars>>

\* the buttons that leave for the dashboard (error view, sender view, form)
ExitToDashboard ==
    /\ mounted
    /\ View(pageState, auth, currentQuestionIndex) \in {"error", "sender", "form"}
    /\ nav' = [to |-> "dashboard", by |-> "exit", id |-> 0]
    /\ step' = Step("ExitToDashboard")
    /\ UNCHANGED <<auth, isConnected, connectError, mounted, attemptVars, startVars, countdownVars, listenerVars, socketVars>>

\* the page is left: the effects' cleanups run (clearInterval, listeners off)
AttemptUnmount ==
    /\ mounted
    /\ mounted' = FALSE
    /\ timerActive' = FALSE
    /\ step' = Step("Unmount")
    /\ UNCHANGED <<auth, isConnected, connectError, nav, pageState, answers, timeLeft,
                   currentQuestionIndex, submitTimeouts, redirectTimeouts, fetchInFlight,
                   submits, elapsed, srvRole, timeLimit, everStarted, attemptId, submitCount, submitFailed, startVars, countdownVars, listenerVars, socketVars>>

AttemptNext ==
    \/ AuthResolve
    \/ \E o \in FetchOutcomes : FetchReturn(o)
    \/ RetryLoad
    \/ ClockAdvance
    \/ Tick
    \/ TimeoutFire
    \/ ManualSubmit
    \/ SubmitOk
    \/ SubmitFail
    \/ EditAnswer
    \/ NextQuestion
    \/ PrevQuestion
    \/ AttemptSocketConnect
    \/ AttemptSocketDisconnect
    \/ ExamCompleted
    \/ RedirectTimeoutFire
    \/ ExitToDashboard
    \/ AttemptUnmount

AttemptSpec == AttemptInit /\ [][AttemptNext]_vars

\* The attempt page with its requests answered: the auth check resolves and a
\* pending getActiveAttemptDetails request returns or fails.
AttemptLoadSpec ==
    AttemptSpec /\ WF_vars(AuthResolve) /\ WF_vars(\E o \in FetchOutcomes : FetchReturn(o))

\* The attempt page with its timers running: the clock goes on, a due interval
\* callback runs, and a due zero-delay callback runs.
AttemptLiveSpec ==
    /\ AttemptSpec
    /\ WF_vars(ClockAdvance)
    /\ WF_vars(Tick)
    /\ WF_vars(TimeoutFire)

----------------------------------------------------------------------------
\* Timer effect of the attempt page in milliseconds: the derivation of timeLeft
\* when an in-progress attempt is loaded (and loaded again)

\* new Date().getTime(): the instants at which the effect runs
Timestamps == { sec * 1000 + ms : sec \in 0..MaxSeconds, ms \in {0, 1, 500, 999} }

\* pageState.startTime.getTime() (a start time after now: the client clock is behind)
StartTimestamps == {0, 500, 2000}

CountdownInit ==
    /\ auth = "user" /\ isConnected = FALSE /\ connectError = NoError
    /\ mounted = TRUE /\ nav = NoNav /\ step = Step("Init")
    /\ pageState = InitPageState /\ answers = << >> /\ timeLeft = NoTime
    /\ currentQuestionIndex = 0 /\ timerActive = FALSE /\ submitTimeouts = <<>>
    /\ redirectTimeouts = 0 /\ fetchInFlight = FALSE /\ submits = EmptyBag
    /\ elapsed = 0 /\ srvRole = Null /\ submitCount = 0 /\ submitFailed = FALSE
    /\ attemptId = ParseInt(<<"7">>)
    /\ timeLimit = TimeLimit /\ everStarted = FALSE
    /\ state = InitStartState /\ roleParam = Null /\ templateReq = FALSE
    /\ templateId = ParseInt(<<"7">>)
    /\ startReqs = <<>> /\ joinReqs = <<>>
    /\ startTimestamp \in StartTimestamps
    /\ nowTimestamp \in Timestamps
    /\ limitSeconds \in 1..MaxLimit
    /\ remainingSeconds = NoTime
    /\ SocketIdle
    /\ ListenersIdle

\* the timer effect runs for the loaded attempt
CountdownLoad ==
    /\ remainingSeconds = NoTime
    /\ remainingSeconds' = RemainingAt(limitSeconds, nowTimestamp, startTimestamp)
    /\ UNCHANGED <<startTimestamp, nowTimestamp, limitSeconds, sharedVars, attemptVars,
                   startVars, socketVars, listenerVars>>

\* the attempt is loaded again later and the effect runs again
CountdownReload ==
    /\ remainingSeconds # NoTime
    /\ \E t \in Timestamps :
         /\ t > nowTimestamp
         /\ nowTimestamp' = t
         /\ remainingSeconds' = RemainingAt(limitSeconds, t, startTimestamp)
    /\ UNCHANGED <<startTimestamp, limitSeconds, sharedVars, attemptVars, startVars,
                   socketVars, listenerVars>>

CountdownNext == CountdownLoad \/ CountdownReload

CountdownSpec == CountdownInit /\ [][CountdownNext]_vars

----------------------------------------------------------------------------
\* Start page: server data and pure parts

\* what the user types into the pairing code field (sequences of characters)
CodeInputs ==
    { <<>>, <<" ">>, <<" ", "a", "B", " ">>, <<"a", "b", "1", "2", "c", "d">> }

\* the outcomes of GET /templates for the requested id
TemplateOutcomes == {"intelligence", "communication", "notfound", "error"}

\* the outcomes of POST /attempts/start: attemptId (0 = none) and pairingCode
\* (the backend gives every attempt a pairing code of its own)
PairingCodeOf(id) == IF id = 1 THEN "PC1" ELSE IF id = 2 THEN "PC2" ELSE "PC0"

AttemptIds == {1, 2}

StartOutcomes ==
    UNION { { [kind |-> "ok", attemptId |-> id, pairingCode |-> c] :
                c \in {Null, PairingCodeOf(id)} } : id \in AttemptIds \cup {0} }
    \cup {[kind |-> "reject", attemptId |-> 0, pairingCode |-> Null]}

\* the outcomes of POST /attempts/join_pairing
JoinOutcomes ==
    [kind : {"ok"}, attemptId : {0, 1}] \cup {[kind |-> "reject", attemptId |-> 0]}

RECURSIVE TrimStart(_)
TrimStart(s) == IF s # <<>> /\ Head(s) = " " THEN TrimStart(Tail(s)) ELSE s

RECURSIVE TrimEnd(_)
TrimEnd(s) ==
    IF s # <<>> /\ s[Len(s)] = " " THEN TrimEnd(SubSeq(s, 1, Len(s) - 1)) ELSE s

\* a variant of Trim that removes leading whitespace only
TrimLeadingOnly(s) == TrimStart(s)

\* String.prototype.trim
Trim(s) == TrimEnd(TrimStart(s))

LowerCaseLetters == {"a", "b", "c", "d"}

UpperChar(c) ==
    CASE c = "a" -> "A" [] c = "b" -> "B" [] c = "c" -> "C" [] c = "d" -> "D"
      [] OTHER -> c

\* String.prototype.toUpperCase
ToUpperCase(s) == [i \in 1..Len(s) |-> UpperChar(s[i])]

\* handleJoinPairing: the code sent to joinPairing
NormalizedCode(input) == ToUpperCase(Trim(input))

\* the [templateId] route parameters followed
TemplateIdParams == {<<"7">>, <<"7", "x">>, <<"x">>, <<>>}

\* fetchTemplateDetails: the state stored for a template id that is no number
InvalidTemplateId(s) == [s EXCEPT !.startError = "invalid id", !.isLoadingTemplate = FALSE]

\* fetchTemplateDetails: the state set before the request
LoadingTemplate(s) == [s EXCEPT !.isLoadingTemplate = TRUE, !.startError = NoError]

\* a variant of TemplateFailed that stores no message
TemplateFailedSilently(s) == [s EXCEPT !.isLoadingTemplate = FALSE]

\* fetchTemplateDetails: the state stored in the catch branch (template not in
\* the list, or the request failed)
TemplateFailed(s) == [s EXCEPT !.startError = "template failed", !.isLoadingTemplate = FALSE]

\* handleStartAttempt: the early returns
StartBlocked(s, au) ==
    \/ au # "user"
    \/ s.templateInfo = Null
    \/ IsNaN(templateId)
    \/ s.isStartingAttempt
    \/ (s.templateInfo = "communication" /\ s.role # "sender")

\* auto-start effect: its condition
AutoStartCond(s) ==
    /\ s.templateInfo # Null /\ s.role # Null /\ s.attemptId = 0
    /\ ~s.isStartingAttempt /\ ~s.isLoadingTemplate
    /\ (s.role = "sender" \/ s.templateInfo = "intelligence")

\* auto-start effect: its dependency list changed between two renders
AutoStartDepsChanged(s1, s2) ==
    \/ s1.templateInfo # s2.templateInfo
    \/ s1.role # s2.role
    \/ s1.attemptId # s2.attemptId
    \/ s1.isStartingAttempt # s2.isStartingAttempt
    \/ s1.isLoadingTemplate # s2.isLoadingTemplate

\* handleStartAttempt and attemptsAPI.startAttempt: the request sent from state s:
\* the role of the payload (Null = no role property) and the template it is for
StartRequest(s) == [role |-> IF s.role # Null THEN s.role ELSE Null,
                    template |-> s.templateInfo]

\* handleStartAttempt: the state set before the request
Starting(s) == [s EXCEPT !.isStartingAttempt = TRUE, !.startError = NoError]

\* handleStartAttempt: the state set for a response with an attemptId
Started(s, o) ==
    [s EXCEPT !.attemptId = o.attemptId, !.pairingCodeDisplay = o.pairingCode,
              !.isStartingAttempt = FALSE]

\* a variant of StartNavigates that goes on whatever the response carries
StartNavigatesAlways(role, o) == TRUE

\* handleStartAttempt: the response sends the page on to the attempt page
StartNavigates(role, o) == ~(role = "sender" /\ o.pairingCode # Null)

\* handleStartAttempt: the catch branch
StartFailed(s) == [s EXCEPT !.startError = "start failed", !.isStartingAttempt = FALSE]

\* handleJoinPairing: the state set before the request
Joining(s) == [s EXCEPT !.isJoiningPairing = TRUE, !.pairingError = NoError]

\* a variant of JoinAccepted that goes on for any answered request
JoinAcceptedAnyAnswer(o) == o.kind = "ok"

\* handleJoinPairing: the response lets the page go on to the attempt page
JoinAccepted(o) == o.kind = "ok" /\ o.attemptId # 0

\* a variant of JoinFailed that reports the error and keeps the join state
JoinFailedStillJoining(s) == [s EXCEPT !.pairingError = "join failed"]

\* handleJoinPairing: the catch branch
JoinFailed(s) == [s EXCEPT !.pairingError = "join failed", !.isJoiningPairing = FALSE]

\* receiver effect: the pairing_failed listener
OnPairingFailed(s) ==
    [s EXCEPT !.pairingError = "pairing failed", !.isJoiningPairing = FALSE]

\* receiver effect: the start_exam listener, event without attemptId
OnStartExamWithoutId(s) ==
    [s EXCEPT !.pairingError = "cannot start", !.isJoiningPairing = FALSE]

\* socketConnectError effect
OnConnectError(s) ==
    [s EXCEPT !.pairingError = "cannot connect", !.isJoiningPairing = FALSE,
              !.isStartingAttempt = FALSE]

\* receiver effect: its listeners are registered
ReceiverListening ==
    /\ mounted /\ auth = "user" /\ isConnected
    /\ state.role = "receiver" /\ state.isJoiningPairing

\* sender effect: its listeners are registered
SenderListening ==
    /\ mounted /\ auth = "user" /\ isConnected
    /\ state.role = "sender" /\ state.pairingCodeDisplay # Null

\* the render: the template card with the controls of the role is shown
CardShown == mounted /\ auth = "user" /\ ~state.isLoadingTemplate /\ state.templateInfo # Null

----------------------------------------------------------------------------
\* Start page: state after construction (the role effect has read the query)

StartInit ==
    /\ auth = "loading" /\ isConnected = FALSE /\ connectError = NoError
    /\ mounted = TRUE /\ nav = NoNav /\ step = Step("Init")
    /\ roleParam \in {"sender", "receiver", Null}
    /\ state = [InitStartState EXCEPT !.role = roleParam]
    /\ templateId \in {ParseInt(p) : p \in TemplateIdParams}
    /\ templateReq = FALSE /\ startReqs = <<>> /\ joinReqs = <<>>
    /\ pageState = InitPageState /\ answers = << >> /\ timeLeft = NoTime
    /\ currentQuestionIndex = 0 /\ timerActive = FALSE /\ submitTimeouts = <<>>
    /\ redirectTimeouts = 0 /\ fetchInFlight = FALSE /\ submits = EmptyBag
    /\ elapsed = 0 /\ srvRole = Null /\ submitCount = 0 /\ submitFailed = FALSE
    /\ attemptId = ParseInt(<<"7">>)
    /\ timeLimit = TimeLimit /\ everStarted = FALSE
    /\ CountdownIdle
    /\ SocketIdle
    /\ ListenersIdle

----------------------------------------------------------------------------
\* Start page: render and effects

\* A state update followed by the render and the auto-start effect, which calls
\* handleStartAttempt. reqs are the startAttempt requests in flight before the
\* effect runs; force says that a dependency changed identity.
\* stp is the record of the step without what the effect does.
StartCommitStep(s2, force, stp, reqs) ==
    IF /\ (force \/ AutoStartDepsChanged(state, s2))
       /\ AutoStartCond(s2)
       /\ ~StartBlocked(s2, auth)
    THEN /\ Len(reqs) < MaxStartsInFlight
         /\ state' = Starting(s2)
         /\ startReqs' = Append(reqs, StartRequest(s2))
         /\ step' = [stp EXCEPT !.issued = "auto"]
    ELSE /\ state' = s2
         /\ startReqs' = reqs
         /\ step' = stp

StartCommit(s2, force, name, reqs) == StartCommitStep(s2, force, Step(name), reqs)

Remove(seq, i) == SubSeq(seq, 1, i - 1) \o SubSeq(seq, i + 1, Len(seq))

\* the auth check resolves; the effect calls fetchTemplateDetails, and without a
\* user ProtectedRoute goes to /login
StartAuthResolve ==
    /\ auth = "loading" /\ mounted
    /\ \E u \in {"user", "none"} :
         /\ auth' = u
         /\ IF u = "user"
            THEN /\ IF IsNaN(templateId)
                    THEN state' = InvalidTemplateId(state) /\ templateReq' = FALSE
                    ELSE state' = LoadingTemplate(state) /\ templateReq' = TRUE
                 /\ nav' = nav
            ELSE /\ state' = [state EXCEPT !.startError = "login first",
                                           !.isLoadingTemplate = FALSE]
                 /\ templateReq' = FALSE
                 /\ nav' = [to |-> "login", by |-> "auth", id |-> 0]
    /\ step' = Step("StartAuthResolve")
    /\ UNCHANGED <<isConnected, connectError, mounted, roleParam, templateId, startReqs, joinReqs,
                   attemptVars, countdownVars, listenerVars, socketVars>>

\* fetchTemplateDetails: getActiveTemplates returns
TemplatesReturn(o) ==
    /\ templateReq
    /\ templateReq' = FALSE
    /\ IF ~mounted
       THEN /\ step' = Step("TemplatesReturn")
            /\ UNCHANGED <<state, startReqs>>
       ELSE IF o \in {"intelligence", "communication"}
       THEN StartCommit([state EXCEPT !.templateInfo = o, !.isLoadingTemplate = FALSE],
                        TRUE, "TemplatesReturn", startReqs)
       ELSE StartCommit(TemplateFailed(state), FALSE, "TemplatesReturn", startReqs)
    /\ UNCHANGED <<auth, isConnected, connectError, mounted, nav, roleParam, templateId, joinReqs,
                   attemptVars, countdownVars, listenerVars, socketVars>>

\* the "retry loading the template" link of the error banner
RetryLoadTemplate ==
    /\ mounted /\ auth = "user"
    /\ state.startError # NoError /\ ~state.isLoadingTemplate
    /\ ~templateReq
    /\ templateReq' = ~IsNaN(templateId)
    /\ StartCommit(IF IsNaN(templateId) THEN InvalidTemplateId(state)
                   ELSE LoadingTemplate(state),
                   FALSE, "RetryLoadTemplate", startReqs)
    /\ UNCHANGED <<auth, isConnected, connectError, mounted, nav, roleParam, templateId, joinReqs,
                   attemptVars, countdownVars, listenerVars, socketVars>>

\* the buttons that call handleStartAttempt: the sender's retry button and the
\* start button of an intelligence template opened without a role
ManualStart ==
    /\ CardShown
    /\ \/ /\ state.role = "sender"
          /\ ~state.isStartingAttempt /\ state.pairingCodeDisplay = Null
       \/ /\ state.role = Null /\ state.templateInfo = "intelligence"
          /\ ~state.isStartingAttempt /\ state.attemptId = 0
          /\ state.startError = NoError
    /\ ~StartBlocked(state, auth)
    /\ Len(startReqs) < MaxStartsInFlight
    /\ state' = Starting(state)
    /\ startReqs' = Append(startReqs, StartRequest(state))
    /\ step' = [Step("ManualStart") EXCEPT !.issued = "manual"]
    /\ UNCHANGED <<auth, isConnected, connectError, mounted, nav, roleParam, templateId, templateReq,
                   joinReqs, attemptVars, countdownVars, listenerVars, socketVars>>

\* handleStartAttempt: startAttempt returns with outcome o
StartReturn(o) ==
    \E i \in 1..Len(startReqs) :
      LET accepted == o.kind = "ok" /\ o.attemptId # 0 IN
      /\ IF accepted /\ StartNavigates(startReqs[i].role, o)
         THEN nav' = [to |-> "attempt", by |-> "startAttempt", id |-> o.attemptId]
         ELSE nav' = nav
      /\ IF ~mounted
         THEN /\ step' = [Step(IF accepted THEN "StartOk" ELSE "StartFail")
                              EXCEPT !.outcome = o]
              /\ state' = state
              /\ startReqs' = Remove(startReqs, i)
         ELSE IF accepted
         THEN StartCommitStep(Started(state, o), FALSE,
                              [Step("StartOk") EXCEPT !.outcome = o], Remove(startReqs, i))
         ELSE StartCommit(StartFailed(state), FALSE, "StartFail", Remove(startReqs, i))
      /\ UNCHANGED <<auth, isConnected, connectError, mounted, roleParam, templateId, templateReq,
                     joinReqs, attemptVars, countdownVars, listenerVars, socketVars>>

\* the user types into the pairing code field (disabled while joining)
EditCode ==
    /\ CardShown /\ state.role = "receiver" /\ ~state.isJoiningPairing
    /\ \E v \in CodeInputs :
         /\ v # state.pairingCodeInput
         /\ StartCommit([state EXCEPT !.pairingCodeInput = v, !.pairingError = NoError],
                        FALSE, "EditCode", startReqs)
    /\ UNCHANGED <<auth, isConnected, connectError, mounted, nav, roleParam, templateId, templateReq,
                   joinReqs, attemptVars, countdownVars, listenerVars, socketVars>>

\* handleJoinPairing, called from the render it was created in
HandleJoinPairing(name) ==
    IF Trim(state.pairingCodeInput) = <<>>
    THEN /\ StartCommit([state EXCEPT !.pairingError = "enter a code"], FALSE, name,
                        startReqs)
         /\ joinReqs' = joinReqs
    ELSE /\ Len(joinReqs) < MaxJoinsInFlight
         /\ joinReqs' = Append(joinReqs, NormalizedCode(state.pairingCodeInput))
         /\ state' = Joining(state)
         /\ startReqs' = startReqs
         /\ step' = [Step(name) EXCEPT !.issued = "manual"]

\* the join button (disabled while joining, without a code, without a connection)
JoinButton ==
    /\ CardShown /\ state.role = "receiver"
    /\ ~state.isJoiningPairing /\ Trim(state.pairingCodeInput) # <<>> /\ isConnected
    /\ HandleJoinPairing("JoinButton")
    /\ UNCHANGED <<auth, isConnected, connectError, mounted, nav, roleParam, templateId, templateReq,
                   attemptVars, countdownVars, listenerVars, socketVars>>

\* the Enter key in the pairing code field
JoinEnterKey ==
    /\ CardShown /\ state.role = "receiver"
    /\ ~state.isJoiningPairing
    /\ HandleJoinPairing("JoinEnterKey")
    /\ UNCHANGED <<auth, isConnected, connectError, mounted, nav, roleParam, templateId, templateReq,
                   attemptVars, countdownVars, listenerVars, socketVars>>

\* the "retry joining" link of the error banner
JoinRetryLink ==
    /\ mounted /\ auth = "user"
    /\ state.pairingError # NoError /\ ~state.isJoiningPairing
    /\ HandleJoinPairing("JoinRetryLink")
    /\ UNCHANGED <<auth, isConnected, connectError, mounted, nav, roleParam, templateId, templateReq,
                   attemptVars, countdownVars, listenerVars, socketVars>>

\* handleJoinPairing: joinPairing returns with outcome o
JoinReturn(o) ==
    \E i \in 1..Len(joinReqs) :
      /\ joinReqs' = Remove(joinReqs, i)
      /\ IF JoinAccepted(o)
         THEN /\ nav' = [to |-> "attempt", by |-> "joinPairing", id |-> o.attemptId]
              /\ step' = Step("JoinOk")
              /\ UNCHANGED <<state, startReqs>>
         ELSE /\ nav' = nav
              /\ IF mounted
                 THEN StartCommit(JoinFailed(state), FALSE, "JoinFail", startReqs)
                 ELSE /\ step' = Step("JoinFail")
                      /\ UNCHANGED <<state, startReqs>>
      /\ UNCHANGED <<auth, isConnected, connectError, mounted, roleParam, templateId, templateReq,
                     attemptVars, countdownVars, listenerVars, socketVars>>

\* receiver effect: pairing_success (a toast only; the page waits for start_exam)
ReceiverPairingSuccess ==
    /\ ReceiverListening
    /\ step' = Step("ReceiverPairingSuccess")
    /\ UNCHANGED <<auth, isConnected, connectError, mounted, nav, startVars, attemptVars, countdownVars, listenerVars, socketVars>>

\* receiver effect: pairing_failed
PairingFailed ==
    /\ ReceiverListening
    /\ StartCommit(OnPairingFailed(state), FALSE, "PairingFailed", startReqs)
    /\ UNCHANGED <<auth, isConnected, connectError, mounted, nav, roleParam, templateId, templateReq,
                   joinReqs, attemptVars, countdownVars, listenerVars, socketVars>>

\* receiver effect: start_exam carrying attemptId id (0 = none)
StartExam(id) ==
    /\ ReceiverListening
    /\ IF id # 0
       THEN /\ nav' = [to |-> "attempt", by |-> "start_exam", id |-> id]
            /\ step' = Step("StartExam")
            /\ UNCHANGED <<state, startReqs>>
       ELSE /\ nav' = nav
            /\ StartCommit(OnStartExamWithoutId(state), FALSE, "StartExamWithoutId",
                           startReqs)
    /\ UNCHANGED <<auth, isConnected, connectError, mounted, roleParam, templateId, templateReq,
                   joinReqs, attemptVars, countdownVars, listenerVars, socketVars>>

\* sender effect: pairing_success
SenderPairingSuccess ==
    /\ SenderListening
    /\ IF state.attemptId # 0
       THEN nav' = [to |-> "attempt", by |-> "pairing_success", id |-> state.attemptId]
       ELSE nav' = nav
    /\ StartCommit([state EXCEPT !.isPartnerConnected = TRUE], FALSE,
                   "SenderPairingSuccess", startReqs)
    /\ UNCHANGED <<auth, isConnected, connectError, mounted, roleParam, templateId, templateReq,
                   joinReqs, attemptVars, countdownVars, listenerVars, socketVars>>

\* sender effect: error
SenderSocketError ==
    /\ SenderListening
    /\ StartCommit([state EXCEPT !.startError = "pairing error",
                                 !.isStartingAttempt = FALSE],
                   FALSE, "SenderSocketError", startReqs)
    /\ UNCHANGED <<auth, isConnected, connectError, mounted, nav, roleParam, templateId, templateReq,
                   joinReqs, attemptVars, countdownVars, listenerVars, socketVars>>

\* sender effect: opponent_disconnected
OpponentDisconnected ==
    /\ SenderListening
    /\ StartCommit([state EXCEPT !.isPartnerConnected = FALSE,
                                 !.startError = "opponent disconnected"],
                   FALSE, "OpponentDisconnected", startReqs)
    /\ UNCHANGED <<auth, isConnected, connectError, mounted, nav, roleParam, templateId, templateReq,
                   joinReqs, attemptVars, countdownVars, listenerVars, socketVars>>

\* socketConnectError effect, run when the provider's connectError changed
ConnectErrorEffect(name) ==
    IF mounted /\ connectError' # connectError /\ connectError' # NoError
    THEN StartCommit(OnConnectError(state), FALSE, name, startReqs)
    ELSE /\ step' = Step(name)
         /\ UNCHANGED <<state, startReqs>>

\* socket events of the provider while the start page is shown
StartSocketConnect ==
    /\ ProviderConnect
    /\ ConnectErrorEffect("SocketConnect")
    /\ UNCHANGED <<auth, mounted, nav, roleParam, templateId, templateReq, joinReqs, attemptVars, countdownVars, listenerVars, socketVars>>

StartSocketDisconnect ==
    /\ \E reason \in DisconnectReasons : ProviderDisconnect(reason)
    /\ ConnectErrorEffect("SocketDisconnect")
    /\ UNCHANGED <<auth, mounted, nav, roleParam, templateId, templateReq, joinReqs, attemptVars, countdownVars, listenerVars, socketVars>>

StartSocketConnectError ==
    /\ ProviderConnectError
    /\ ConnectErrorEffect("SocketConnectError")
    /\ UNCHANGED <<auth, mounted, nav, roleParam, templateId, templateReq, joinReqs, attemptVars, countdownVars, listenerVars, socketVars>>

\* the "back to the list" button (disabled while starting or joining)
BackToDashboard ==
    /\ mounted /\ auth = "user"
    /\ ~state.isStartingAttempt /\ ~state.isJoiningPairing
    /\ nav' = [to |-> "dashboard", by |-> "exit", id |-> 0]
    /\ step' = Step("BackToDashboard")
    /\ UNCHANGED <<auth, isConnected, connectError, mounted, startVars, attemptVars, countdownVars, listenerVars, socketVars>>

\* the page is left: the effects' cleanups remove its listeners
StartUnmount ==
    /\ mounted
    /\ mounted' = FALSE
    /\ step' = Step("Unmount")
    /\ UNCHANGED <<auth, isConnected, connectError, nav, startVars, attemptVars, countdownVars, listenerVars, socketVars>>

StartNext ==
    \/ StartAuthResolve
    \/ \E o \in TemplateOutcomes : TemplatesReturn(o)
    \/ RetryLoadTemplate
    \/ ManualStart
    \/ \E o \in StartOutcomes : StartReturn(o)
    \/ EditCode
    \/ JoinButton
    \/ JoinEnterKey
    \/ JoinRetryLink
    \/ \E o \in JoinOutcomes : JoinReturn(o)
    \/ ReceiverPairingSuccess
    \/ PairingFailed
    \/ \E id \in {0, 1} : StartExam(id)
    \/ SenderPairingSuccess
    \/ SenderSocketError
    \/ OpponentDisconnected
    \/ StartSocketConnect
    \/ StartSocketDisconnect
    \/ StartSocketConnectError
    \/ BackToDashboard
    \/ StartUnmount

StartSpec == StartInit /\ [][StartNext]_vars

----------------------------------------------------------------------------
\* Socket client (lib/socket-client.ts), SocketProvider effect and AuthProvider

\* the largest number of io() instances followed
MaxSockets == 2

\* initSocket: the reconnectionAttempts option given to io()
ReconnectionAttempts == 5

\* initSocket: io() is called only while the module holds no socket
CreatesSocketAlways(st) == TRUE

CreatesSocket(st) == st = "none"

\* initSocket: the module's socket afterwards (autoConnect is false)
InitSocket(st) == IF CreatesSocket(st) THEN "disconnected" ELSE st

\* connectSocket: socket.connect() is called unless socket.connected
ConnectCalled(st) == InitSocket(st) # "connected"

ConnectSocket(st) == IF ConnectCalled(st) THEN "connecting" ELSE InitSocket(st)

\* disconnectSocket: socket.disconnect() only if the socket exists and is connected
DisconnectSocket(st) == IF st = "connected" THEN "disconnected" ELSE st

\* the effect's first branch: !isAuthLoading && user
EffectConnects(au) == au = "user"

\* the effect's second branch: !isAuthLoading && !user
EffectTearsDown(au) == au = "none"

\* The SocketProvider effect when [user, isAuthLoading] changes from au1 to au2:
\* the cleanup of the previous run (only the connecting branch returns one),
\* then the body for the new values.
SocketEffect(au1, au2, stp) ==
    LET cleanup == EffectConnects(au1)
        cleaned == IF cleanup THEN DisconnectSocket(socketStatus) ELSE socketStatus
    IN  /\ socketStatus' = IF EffectConnects(au2) THEN ConnectSocket(cleaned)
                           ELSE IF EffectTearsDown(au2) THEN DisconnectSocket(cleaned)
                           ELSE cleaned
        /\ socketCreated' = IF EffectConnects(au2) /\ CreatesSocket(cleaned)
                            THEN socketCreated + 1 ELSE socketCreated
        /\ listening' = EffectConnects(au2)
        /\ isConnected' = IF cleanup \/ EffectTearsDown(au2) THEN FALSE ELSE isConnected
        /\ connectError' = IF cleanup \/ EffectTearsDown(au2) THEN NoError ELSE connectError
        /\ step' = [stp EXCEPT !.issued = IF EffectConnects(au2) /\ ConnectCalled(cleaned)
                                          THEN "connect" ELSE "none"]

\* user.role of the accounts followed
UserRoles == {"admin", "user"}

\* ProtectedRoute: the user lacks the role the route asks for
RoleRefused(role, admin) == admin /\ role # "admin"

\* a variant of RouteView that does not look at adminOnly
RouteViewIgnoringAdmin(au, role, admin) ==
    IF au = "loading" THEN "loading"
    ELSE IF au = "none" THEN "nothing"
    ELSE "children"

\* ProtectedRoute: what it renders
RouteView(au, role, admin) ==
    IF au = "loading" THEN "loading"
    ELSE IF au = "none" \/ RoleRefused(role, admin) THEN "nothing"
    ELSE "children"

\* ProtectedRoute: the router.push of its effect
RouteRedirect(au, role, admin) ==
    IF au = "none" THEN "login"
    ELSE IF au = "user" /\ RoleRefused(role, admin) THEN "dashboard"
    ELSE "none"

SocketInit ==
    /\ auth = "loading" /\ isConnected = FALSE /\ connectError = NoError
    /\ mounted = TRUE /\ nav = NoNav /\ step = Step("Init")
    /\ pageState = InitPageState /\ answers = << >> /\ timeLeft = NoTime
    /\ currentQuestionIndex = 0 /\ timerActive = FALSE /\ submitTimeouts = <<>>
    /\ redirectTimeouts = 0 /\ fetchInFlight = FALSE /\ submits = EmptyBag
    /\ elapsed = 0 /\ srvRole = Null /\ submitCount = 0 /\ submitFailed = FALSE
    /\ attemptId = ParseInt(<<"7">>)
    /\ timeLimit = TimeLimit /\ everStarted = FALSE
    /\ state = InitStartState /\ roleParam = Null /\ templateReq = FALSE
    /\ templateId = ParseInt(<<"7">>)
    /\ startReqs = <<>> /\ joinReqs = <<>>
    /\ CountdownIdle
    /\ socketStatus = "none" /\ socketCreated = 0 /\ listening = FALSE
    /\ authOp = "check" /\ reconnects = 0
    /\ adminOnly \in BOOLEAN /\ userRole = Null
    /\ routeView = RouteView("loading", Null, adminOnly) /\ routeNav = "none"
    /\ ListenersIdle

\* an auth change with the render and the SocketProvider effect that follow it
AuthChange(au2, op2, role, to, name) ==
    /\ socketCreated < MaxSockets
    /\ auth' = au2
    /\ authOp' = op2
    /\ userRole' = role
    /\ routeView' = RouteView(au2, role, adminOnly)
    /\ routeNav' = RouteRedirect(au2, role, adminOnly)
    /\ adminOnly' = adminOnly
    /\ nav' = IF to = "none" THEN nav ELSE [to |-> to, by |-> name, id |-> 0]
    /\ SocketEffect(auth, au2, Step(name))
    /\ UNCHANGED <<mounted, reconnects, attemptVars, startVars, countdownVars, listenerVars>>

\* checkAuthStatus returns: setUser(userData) or setUser(null), then setIsLoading(false)
CheckAuthReturn ==
    /\ authOp = "check"
    /\ \/ \E role \in UserRoles : AuthChange("user", "none", role, "none", "CheckAuthReturn")
       \/ AuthChange("none", "none", Null, "none", "CheckAuthReturn")

\* login succeeds: setUser(response.user) and router.push
LoginOk ==
    /\ auth = "none" /\ authOp = "none"
    /\ \E role \in UserRoles : AuthChange("user", "none", role, "dashboard", "LoginOk")

\* logout is called: setIsLoading(true), the request is sent
Logout ==
    /\ auth = "user" /\ authOp = "none"
    /\ AuthChange("loading", "logout", userRole, "none", "Logout")

\* logout's finally: setUser(null), setIsLoading(false), router.push('/login')
LogoutReturn ==
    /\ authOp = "logout"
    /\ AuthChange("none", "none", Null, "login", "LogoutReturn")

\* checkAuthStatus is called again (after register): setIsLoading(true)
Recheck ==
    /\ auth = "user" /\ authOp = "none"
    /\ AuthChange("loading", "check", userRole, "none", "Recheck")

\* the socket's 'connect' event; handleConnect runs while the handlers are on
SocketConnected ==
    /\ socketStatus = "connecting"
    /\ socketStatus' = "connected"
    /\ isConnected' = IF listening THEN TRUE ELSE isConnected
    /\ connectError' = IF listening THEN NoError ELSE connectError
    /\ reconnects' = 0
    /\ step' = Step("SocketConnected")
    /\ UNCHANGED <<auth, mounted, nav, socketCreated, listening, authOp, routeVars,
                   attemptVars, startVars, countdownVars, listenerVars>>

\* the socket's 'connect_error' event: the client tries again until
\* reconnectionAttempts retries have failed, then gives up; handleConnectError
\* runs while the handlers are on
SocketConnectError ==
    /\ socketStatus = "connecting"
    /\ IF reconnects < ReconnectionAttempts
       THEN socketStatus' = "connecting" /\ reconnects' = reconnects + 1
       ELSE socketStatus' = "disconnected" /\ reconnects' = 0
    /\ connectError' = IF listening /\ ~isConnected THEN "connect error" ELSE connectError
    /\ step' = Step("SocketConnectError")
    /\ UNCHANGED <<auth, isConnected, mounted, nav, socketCreated, listening, authOp,
                   routeVars, attemptVars, startVars, countdownVars, listenerVars>>

\* the reasons of a 'disconnect' event the client did not ask for
RemoteDisconnectReasons == DisconnectReasons \ {"io client disconnect"}

\* the socket's 'disconnect' event: the client reconnects by itself unless the
\* server closed the socket; handleDisconnect runs while the handlers are on
SocketDisconnected ==
    /\ socketStatus = "connected"
    /\ \E reason \in RemoteDisconnectReasons :
        /\ socketStatus' = IF reason = "io server disconnect" THEN "disconnected"
                           ELSE "connecting"
        /\ isConnected' = IF listening THEN FALSE ELSE isConnected
        /\ connectError' = IF listening THEN DisconnectError(reason) ELSE connectError
    /\ step' = Step("SocketDisconnected")
    /\ UNCHANGED <<auth, mounted, nav, socketCreated, listening, authOp, reconnects,
                   routeVars, attemptVars, startVars, countdownVars, listenerVars>>

SocketNext ==
    \/ CheckAuthReturn
    \/ LoginOk
    \/ Logout
    \/ LogoutReturn
    \/ Recheck
    \/ SocketConnected
    \/ SocketConnectError
    \/ SocketDisconnected

SocketSpec == SocketInit /\ [][SocketNext]_vars

----------------------------------------------------------------------------
\* Properties of the attempt page (checked under AttemptSpec)

\* C1: for a non-sender role, the countdown reaching zero and a manual click
\* together issue one submitAttempt request: as long as no request has failed,
\* at most one request has been issued.
C1_SingleSubmit ==
    ~submitFailed => submitCount <= 1

\* the fetch that just returned reported a finished attempt
FetchedFinished ==
    /\ step.name = "FetchReturn"
    /\ step.outcome.kind \in {"body", "err409"}
    /\ step.outcome.status \in {"completed", "timed_out"}

C5_SenderNeverSubmits ==
    (srvRole = "sender" \/ pageState.role = "sender") =>
        /\ submitCount = 0
        /\ submits = EmptyBag
        /\ submitTimeouts = <<>>

C5_Witness ==
    /\ pageState.role = "sender" /\ timeLeft = 0 /\ ~timerActive
    /\ elapsed >= TimeLimit /\ mounted

\* C6: the redirect caused by exam_completed goes to the result page of the
\* attempt, is made by the sender's page, and no submit request was issued;
\* a repeated signal gives the same destination.
C6_CompletedRedirects ==
    nav.by = "exam_completed" =>
        /\ nav.to = "result"
        /\ pageState.role = "sender"
        /\ submitCount = 0

C6_Witness ==
    /\ nav.by = "exam_completed" /\ nav.to = "result" /\ redirectTimeouts > 0

\* C8: after a submitAttempt request has failed, a further request is issued
\* only by the user's click, never by the page itself.
C8_NoAutomaticResubmit ==
    ~(submitFailed /\ step.issued = "auto")

\* C10: after a failed submit the page is not submitting, shows an error, holds
\* the answers that were submitted, and shows the form so that the user can
\* submit them again.
C10_FailedSubmitKeepsForm ==
    (mounted /\ step.name = "SubmitFail") =>
        /\ ~pageState.isSubmitting
        /\ pageState.error # NoError
        /\ FormatAnswers(answers) = step.payload
        /\ View(pageState, auth, currentQuestionIndex) = "form"

----------------------------------------------------------------------------
\* Properties of the start page (checked under StartSpec)

\* C2: while a startAttempt request is pending no second one is issued, so at
\* most one startAttempt request is in flight at any time.
C2_SingleStartInFlight == Len(startReqs) <= 1

C7_JoinFailureResets ==
    (mounted /\ step.name \in {"JoinFail", "PairingFailed", "StartExamWithoutId"})
        => ~state.isJoiningPairing /\ state.pairingError # NoError

C7_Witness ==
    /\ mounted /\ step.name = "JoinFail" /\ joinReqs = <<>>
    /\ ~state.isJoiningPairing /\ state.pairingError = "join failed"

\* C9: after a failed startAttempt of a sender without attemptId, startError is
\* set and the auto-start effect does not issue the request again.
C9_NoAutomaticRestart ==
    (mounted /\ step.name = "StartFail" /\ state.role = "sender" /\ state.attemptId = 0)
        => step.issued # "auto" /\ state.startError # NoError

----------------------------------------------------------------------------
\* Further properties of the attempt page (checked under AttemptSpec)

\* the type of the question with slot order s
SlotType(s) == Questions[CHOOSE i \in 1..Len(Questions) : Questions[i].slot_order = s].type

\* C11: the answer map of a fetched attempt has exactly the slots of its
\* questions, every submit request carries exactly one entry per slot, and a
\* field the form never offers (so never touched) is sent as the empty string.
C11_PayloadCoversSlots ==
    /\ (pageState.questions # <<>> =>
           DOMAIN answers =
               { pageState.questions[i].slot_order : i \in 1..Len(pageState.questions) })
    /\ \A p \in BagToSet(submits) :
         /\ { e.slotOrder : e \in p } = Slots
         /\ Cardinality(p) = Cardinality(Slots)
         /\ \A e \in p : \A f \in AnswerFields \ FieldsOf(SlotType(e.slotOrder)) :
                e[f] = ""

C11_Witness ==
    /\ submitCount > 0
    /\ \E p \in BagToSet(submits) :
         /\ \E e \in p : e.slotOrder = 1 /\ e.answerText = "a"
         /\ \E e \in p : e.slotOrder = 2 /\ e.answerText = "" /\ e.answerCoordX = ""

----------------------------------------------------------------------------
\* Further properties of the start page (checked under StartSpec)

\* C12: while the socket is not connected no input path issues a joinPairing
\* request: not the join button, not the Enter key, not the retry link.
C12_NoJoinWhileDisconnected ==
    (step.name \in {"JoinButton", "JoinEnterKey", "JoinRetryLink"}
         /\ step.issued = "manual")
        => isConnected

\* C13: a startAttempt request for an intelligence template carries no role, one
\* for a communication template carries role sender, and none carries receiver.
C13_StartRequestRoles ==
    \A i \in 1..Len(startReqs) :
        /\ startReqs[i].template = "intelligence" => startReqs[i].role = Null
        /\ startReqs[i].template = "communication" => startReqs[i].role = "sender"
        /\ startReqs[i].role # "receiver"

\* a navigation to the attempt page happens in this step
NavigatesToAttempt == nav' # nav /\ nav'.to = "attempt"

\* C14: a startAttempt response with a pairing code leaves a sender waiting
\* (code shown, attemptId stored, no navigation); from there the page goes to the
\* attempt page on pairing_success, with the stored attemptId; a response with
\* an attemptId and no pairing code navigates at once; and whenever a pairing
\* code is shown an attemptId is stored.
C14_SenderWaitsForPairing ==
    /\ [](state.pairingCodeDisplay # Null =>
             /\ state.attemptId # 0
             /\ state.pairingCodeDisplay = PairingCodeOf(state.attemptId))
    /\ [](nav.by = "pairing_success" =>
             /\ nav.to = "attempt" /\ nav.id # 0 /\ state.role = "sender")
    /\ [][(mounted /\ step'.name = "StartOk") =>
             IF state.role = "sender" /\ step'.outcome.pairingCode # Null
             THEN /\ nav' = nav
                  /\ state'.pairingCodeDisplay = step'.outcome.pairingCode
                  /\ state'.attemptId = step'.outcome.attemptId
             ELSE nav' = [to |-> "attempt", by |-> "startAttempt",
                          id |-> step'.outcome.attemptId]]_vars
    /\ [][(state.role = "sender" /\ state.pairingCodeDisplay # Null
             /\ NavigatesToAttempt /\ step'.name # "StartOk") =>
             nav' = [to |-> "attempt", by |-> "pairing_success",
                     id |-> state.attemptId]]_vars

C14_Witness ==
    /\ state.role = "sender" /\ state.pairingCodeDisplay = "PC2"
    /\ nav = [to |-> "attempt", by |-> "pairing_success", id |-> 2]

\* the steps that call handleJoinPairing
JoinSteps == {"JoinButton", "JoinEnterKey", "JoinRetryLink"}

\* C15: the code sent by joinPairing is the input without surrounding
\* whitespace and with its letters uppercased (ab12cd is sent as AB12CD),
\* normalizing it again changes nothing, and an input that is empty after
\* trimming issues no request and sets pairingError.
C15_CodeNormalized ==
    /\ \A i \in 1..Len(joinReqs) :
         LET c == joinReqs[i] IN
         /\ c # <<>> /\ c[1] # " " /\ c[Len(c)] # " "
         /\ \A k \in 1..Len(c) : c[k] \notin LowerCaseLetters
         /\ NormalizedCode(c) = c
    /\ step.name \in JoinSteps =>
         IF Trim(state.pairingCodeInput) = <<>>
         THEN step.issued = "none" /\ state.pairingError # NoError
         ELSE /\ step.issued = "manual"
              /\ joinReqs # <<>>
              /\ LET sent == joinReqs[Len(joinReqs)] IN
                 /\ Len(sent) <= Len(state.pairingCodeInput)
                 /\ (state.pairingCodeInput = <<"a", "b", "1", "2", "c", "d">>
                        => sent = <<"A", "B", "1", "2", "C", "D">>)
                 /\ (state.pairingCodeInput = <<" ", "a", "B", " ">>
                        => sent = <<"A", "B">>)

C15_Witness ==
    /\ step.name = "JoinEnterKey" /\ step.issued = "manual"
    /\ state.pairingCodeInput = <<" ", "a", "B", " ">>
    /\ joinReqs = << <<"A", "B">> >>

----------------------------------------------------------------------------
\* Properties of the countdown derivation (checked under CountdownSpec)

\* C16: the timeLeft derived on load is max(0, L - floor((now - T0)/1000)): it
\* is never negative, it is 0 once now >= T0 + L*1000, it does not exceed L when
\* now >= T0, and a positive value r means that the whole seconds elapsed are
\* L - r.
C16_InitialTimeLeft ==
    remainingSeconds # NoTime =>
        LET r == remainingSeconds
            e == nowTimestamp - startTimestamp
            L == limitSeconds
        IN /\ r >= 0
           /\ (e >= L * 1000 <=> r = 0)
           /\ (e >= 0 => r <= L)
           /\ (r > 0 => (L - r) * 1000 <= e /\ e < (L - r + 1) * 1000)

C16_Witness ==
    /\ limitSeconds = 3 /\ startTimestamp = 0 /\ nowTimestamp = 2999
    /\ remainingSeconds = 1

----------------------------------------------------------------------------
\* Properties of the countdown of the attempt page (checked under AttemptSpec)

\* C17: once derived on load, timeLeft changes only by the local decrement of 1
\* per tick: while the page stays mounted no step other than a load re-derives
\* it from the wall clock.
C17_OnlyLocalDecrements ==
    [][(mounted /\ timeLeft # NoTime /\ timeLeft' # timeLeft
           /\ step'.name # "FetchReturn")
          => timeLeft' = timeLeft - 1]_vars

\* the page of a non-sender is ready and counts down
Counting ==
    /\ mounted /\ pageState.role # "sender"
    /\ ~pageState.isLoading /\ ~NoCountdown(pageState) /\ timeLeft # NoTime

\* C18 (checked under AttemptLiveSpec): a ready non-sender page with a positive
\* time limit whose ticks keep occurring reaches timeLeft = 0 and issues a
\* submit request, unless it is left or its attempt stops being in progress.
C18_TimeoutSubmits ==
    Counting ~> (submitCount > 0 \/ ~mounted \/ NoCountdown(pageState))

C18_Witness ==
    /\ mounted /\ pageState.role # "sender" /\ timeLeft = 0
    /\ step.name = "TimeoutFire" /\ step.issued = "auto" /\ submitCount = 1
    /\ pageState.isSubmitting

----------------------------------------------------------------------------
\* Properties of the socket client and its provider (checked under SocketSpec)

\* C19: whenever authentication has resolved with no user, the shared socket is
\* neither connected nor still connecting (the teardown branch of the effect has
\* run in the same step), also when a connect call was still pending.
C19_NoUserNoSocket ==
    auth = "none" => socketStatus \notin {"connected", "connecting"}

\* C20: a socket connect is initiated only by a step that ends with
\* authentication resolved and a user present, and at most one socket instance
\* is ever created: a connect after a logout and a new login reuses it.
C20_ConnectOnlyWithUser ==
    /\ step.issued = "connect" => (auth = "user" /\ authOp = "none")
    /\ socketCreated <= 1

\* a login has issued a connect on the socket of an earlier session (the
\* socket has failed attempts behind it), and no second instance was created
C20_Witness ==
    /\ step.name = "LoginOk" /\ step.issued = "connect"
    /\ auth = "user" /\ nav.to = "dashboard"
    /\ reconnects > 0
    /\ socketCreated = 1

----------------------------------------------------------------------------
\* Properties of the attempt page after it was left (checked under AttemptSpec)

\* C21: once the attempt page is unmounted, no callback it scheduled runs any
\* more: no step issues a submit request and no delayed exam_completed
\* redirect is carried out.
C21_NoCallbackAfterLeave ==
    [][~mounted => (submitCount' = submitCount /\ redirectTimeouts' >= redirectTimeouts)]_vars

\* C22: a submit request that completes (resolves or rejects) after the attempt
\* page was left changes nothing on the client: no navigation and no state update.
C22_LateSubmitChangesNothing ==
    [][(~mounted /\ BagCardinality(submits') < BagCardinality(submits))
         => (nav' = nav /\ pageState' = pageState /\ answers' = answers
             /\ timeLeft' = timeLeft)]_vars

\* the loading spinner is shown and no redirect has been issued
OnSpinner ==
    mounted /\ View(pageState, auth, currentQuestionIndex) = "loading" /\ nav.to = "none"

\* C23: with authentication resolving and the fetch returning or failing, the
\* attempt page always leaves the loading spinner (for the error view, the
\* ready views or a redirect), whatever the attemptId parameter is.
C23_LeavesLoading == OnSpinner ~> ~OnSpinner

\* C24: when the fetch returned an attempt of another user, the page holds no
\* questions, no countdown and has issued no submit, and it has redirected to
\* the dashboard or the result view.
C24_ForeignAttemptRedirects ==
    (mounted /\ step.name = "FetchReturn" /\ step.outcome.kind = "body"
       /\ OwnedByOther(step.outcome))
      => /\ pageState.questions = <<>> /\ timeLeft = NoTime /\ submitCount = 0
         /\ nav.to \in {"dashboard", "result"}

\* C25: reference answers and keywords of the questions are rendered only when
\* the role is sender; for a receiver or no role the page renders prompts and
\* input fields only, although the stored question objects carry the answers.
C25_AnswersOnlyForSender ==
    (mounted /\ \E r \in Rendered(pageState, auth, currentQuestionIndex) :
                    r[2] \in ReferenceFields)
      => pageState.role = "sender"

\* a receiver's form is rendered for a stored question that carries an answer
C25_Witness ==
    /\ mounted /\ pageState.role = "receiver"
    /\ Rendered(pageState, auth, currentQuestionIndex) # {}
    /\ "answer" \in DOMAIN pageState.questions[currentQuestionIndex + 1]
    /\ currentQuestionIndex = 1

----------------------------------------------------------------------------
\* Properties of the start page's template loading (checked under StartSpec)

\* a startAttempt request is sent in this step
StartIssued == Len(startReqs') > Len(startReqs)

\* a joinPairing request is sent in this step
JoinIssued == Len(joinReqs') > Len(joinReqs)

\* C26: while no template was found for the requested id (not in the list, or
\* the id is not a number) and no request for it is pending, startError is
\* set; no startAttempt is in flight or has navigated; every startAttempt is
\* sent by a step after which the state holds the template found for a numeric
\* id, and is sent for that template; and a join is sent only by a step of the
\* user.
C26_NoStartWithoutTemplate ==
    /\ [](  (mounted /\ auth = "user" /\ state.templateInfo = Null /\ ~templateReq)
              => state.startError # NoError)
    /\ [](  (state.templateInfo = Null \/ IsNaN(templateId))
              => (startReqs = <<>> /\ nav.by # "startAttempt"))
    /\ [][StartIssued => (state'.templateInfo # Null /\ ~IsNaN(templateId)
                          /\ startReqs'[Len(startReqs')].template = state'.templateInfo)]_vars
    /\ [][JoinIssued => step'.name \in JoinSteps]_vars

\* the page was opened with a template id that is no number: the error is
\* shown, nothing was requested
C26_Witness ==
    /\ mounted /\ auth = "user" /\ IsNaN(templateId)
    /\ state.startError = "invalid id" /\ ~state.isLoadingTemplate
    /\ state.templateInfo = Null /\ startReqs = <<>>
    /\ step.name = "other"

----------------------------------------------------------------------------
\* Properties of ProtectedRoute (checked under SocketSpec)

\* C27: ProtectedRoute renders its children exactly when authentication has
\* finished, a user exists and, on an admin-only route, the user is an admin;
\* once loading has finished it has redirected to /login without a user and to
\* /dashboard for a non-admin on an admin-only route, and nowhere otherwise.
C27_ChildrenOnlyWhenAllowed ==
    /\ routeView = "children"
         <=> (auth = "user" /\ userRole # Null /\ (adminOnly => userRole = "admin"))
    /\ auth = "none" => routeNav = "login"
    /\ (auth = "user" /\ adminOnly /\ userRole # "admin") => routeNav = "dashboard"
    /\ routeView \in {"children", "loading"} => routeNav = "none"

\* a logged-in non-admin on an admin-only route: nothing rendered, sent to the dashboard
C27_Witness ==
    /\ auth = "user" /\ adminOnly /\ userRole = "user"
    /\ routeView = "nothing" /\ routeNav = "dashboard"

----------------------------------------------------------------------------
\* Properties of the countdown's preconditions (checked under AttemptSpec)

\* an auto-submit callback is scheduled in this step
TimeoutScheduled ==
    /\ submitTimeouts' # <<>>
    /\ submitTimeouts' # submitTimeouts
    /\ (submitTimeouts # <<>> => submitTimeouts' # Tail(submitTimeouts))

\* C28: timeLeft is non-null, the interval runs and an auto-submit callback is
\* scheduled only while the stored attempt has a start time, a positive time
\* limit and the status inprogress or started; as long as the page has stored
\* no such attempt (status waiting_pair, or a time limit of 0) no callback is
\* pending and no automatic submit is issued.
C28_CountdownOnlyWhenStarted ==
    /\ []((mounted /\ (timeLeft # NoTime \/ timerActive)) => CountsDown(pageState))
    /\ [][TimeoutScheduled => CountsDown(pageState')]_vars
    /\ [](~everStarted => (submitTimeouts = <<>> /\ step.issued # "auto" /\ timeLeft = NoTime))
    /\ [](timeLimit = 0 => ~everStarted)

\* an attempt with a time limit of 0 is shown as a form, without a countdown
C28_Witness ==
    /\ mounted /\ timeLimit = 0 /\ pageState.status = "inprogress"
    /\ pageState.hasStartTime /\ pageState.role = "receiver"
    /\ View(pageState, auth, currentQuestionIndex) = "form"
    /\ timeLeft = NoTime /\ ~timerActive /\ elapsed = MaxClock

----------------------------------------------------------------------------
\* Properties of the question navigation (checked under AttemptSpec)

----------------------------------------------------------------------------
\* Listener effects of the pages on the shared socket: the receiver and the
\* sender effect of the start page and the exam_completed effect of the attempt
\* page, followed over the values of their dependencies

\* on() calls followed in one run
MaxRegistrations == 9

\* the effects a page declares
EffectsOf(p) ==
    IF p = "start" THEN StartEffects ELSE IF p = "attempt" THEN AttemptEffects ELSE {}

\* the event names an effect's body passes to on()
EventsOf(e) ==
    IF e = "receiver" THEN {"pairing_success", "pairing_failed", "start_exam"}
    ELSE IF e = "sender" THEN {"pairing_success", "error", "opponent_disconnected"}
    ELSE {"exam_completed"}

SocketEvents == UNION {EventsOf(e) : e \in Effects}

\* the dependency array of an effect (on changes with the socket instance; router,
\* attemptId and user.username do not change while the page is shown)
DepsOf(e, d) ==
    IF e = "receiver" THEN <<d.socket, d.isConnected, d.role, d.isJoiningPairing>>
    ELSE IF e = "sender" THEN <<d.socket, d.isConnected, d.role, d.pairingCodeDisplay>>
    ELSE <<d.socket, d.isConnected, d.role>>

\* the body of an effect reaches its on() calls
Registers(e, d) ==
    /\ d.socket /\ d.isConnected
    /\ IF e = "receiver" THEN d.role = "receiver" /\ d.isJoiningPairing
       ELSE IF e = "sender" THEN d.role = "sender" /\ d.pairingCodeDisplay # Null
       ELSE d.role = "sender"

\* the values a render of page p can give to the effects
DepValues(p) ==
    { d \in [socket : BOOLEAN, isConnected : BOOLEAN, role : {Null, "sender", "receiver"},
             isJoiningPairing : BOOLEAN, pairingCodeDisplay : {Null, "PC1", "PC2"}] :
        /\ d.isConnected => d.socket
        /\ p = "attempt" => (~d.isJoiningPairing /\ d.pairingCodeDisplay = Null) }

\* the callbacks effect e passed to on() for the events evs
Callbacks(e, evs) == SetToBag({[event |-> ev, by |-> e] : ev \in evs})

\* onSocketEvent: socket.on(event, callback) for each event of the effect
OnSocketEvent(ls, e, evs) == ls (+) Callbacks(e, evs)

\* a cleanup that leaves the listeners on the socket
UnsubscribeNothing(ls, e, evs) == ls

\* the functions onSocketEvent returned: socket.off(event, callback)
Unsubscribe(ls, e, evs) == ls (-) Callbacks(e, evs)

\* the cleanups of the effects es, each calling the unsubscribe functions it holds
RECURSIVE Cleanups(_, _, _)
Cleanups(ls, es, subs) ==
    IF es = {} THEN ls
    ELSE LET e == CHOOSE x \in es : TRUE
         IN  Cleanups(Unsubscribe(ls, e, subs[e]), es \ {e}, subs)

\* the bodies of the effects es under the dependency values d
RECURSIVE Bodies(_, _, _)
Bodies(ls, es, d) ==
    IF es = {} THEN ls
    ELSE LET e == CHOOSE x \in es : TRUE
         IN  Bodies(IF Registers(e, d) THEN OnSocketEvent(ls, e, EventsOf(e)) ELSE ls,
                    es \ {e}, d)

\* the number of listeners the socket calls for one event
ListenerCount(ls, ev) ==
    CopiesIn([event |-> ev, by |-> "receiver"], ls)
      + CopiesIn([event |-> ev, by |-> "sender"], ls)
      + CopiesIn([event |-> ev, by |-> "completed"], ls)

ListenerInit ==
    /\ auth = "user" /\ isConnected = FALSE /\ connectError = NoError
    /\ mounted = TRUE /\ nav = NoNav /\ step = Step("Init")
    /\ pageState = InitPageState /\ answers = << >> /\ timeLeft = NoTime
    /\ currentQuestionIndex = 0 /\ timerActive = FALSE /\ submitTimeouts = <<>>
    /\ redirectTimeouts = 0 /\ fetchInFlight = FALSE /\ submits = EmptyBag
    /\ elapsed = 0 /\ srvRole = Null /\ submitCount = 0 /\ submitFailed = FALSE
    /\ attemptId = ParseInt(<<"7">>)
    /\ timeLimit = TimeLimit /\ everStarted = FALSE
    /\ state = InitStartState /\ roleParam = Null /\ templateReq = FALSE
    /\ templateId = ParseInt(<<"7">>)
    /\ startReqs = <<>> /\ joinReqs = <<>>
    /\ CountdownIdle
    /\ SocketIdle
    /\ ListenersIdle

\* a page mounts: its first render; every effect of the page is due
MountPage(p) ==
    /\ page = "none"
    /\ \E d \in DepValues(p) : deps' = d
    /\ page' = p
    /\ pendingEffects' = EffectsOf(p)
    /\ handled' = 0
    /\ UNCHANGED <<subscriptions, socketListeners, registrations, sharedVars, attemptVars,
                   startVars, countdownVars, socketVars>>

\* a render with other dependency values: the cleanups of the effects whose
\* dependencies changed run, their bodies are due
Render ==
    /\ page # "none" /\ pendingEffects = {}
    /\ \E d \in DepValues(page) :
         LET changed == {e \in EffectsOf(page) : DepsOf(e, d) # DepsOf(e, deps)}
         IN  /\ d # deps
             /\ deps' = d
             /\ socketListeners' = Cleanups(socketListeners, changed, subscriptions)
             /\ subscriptions' = [e \in Effects |->
                                    IF e \in changed THEN {} ELSE subscriptions[e]]
             /\ pendingEffects' = changed
    /\ handled' = 0
    /\ UNCHANGED <<page, registrations, sharedVars, attemptVars, startVars, countdownVars,
                   socketVars>>

\* the bodies of the due effects run
RunEffects ==
    /\ page # "none" /\ pendingEffects # {}
    /\ LET regs == {e \in pendingEffects : Registers(e, deps)}
           calls == Cardinality({<<e, ev>> \in regs \X SocketEvents : ev \in EventsOf(e)})
       IN  /\ registrations + calls <= MaxRegistrations
           /\ registrations' = registrations + calls
           /\ socketListeners' = Bodies(socketListeners, pendingEffects, deps)
           /\ subscriptions' = [e \in Effects |->
                                  IF e \in regs THEN EventsOf(e) ELSE subscriptions[e]]
    /\ pendingEffects' = {}
    /\ handled' = 0
    /\ UNCHANGED <<page, deps, sharedVars, attemptVars, startVars, countdownVars, socketVars>>

\* the page unmounts: the cleanups of all its effects run
UnmountPage ==
    /\ page # "none"
    /\ socketListeners' = Cleanups(socketListeners, EffectsOf(page), subscriptions)
    /\ subscriptions' = [e \in Effects |-> {}]
    /\ page' = "none" /\ deps' = NoDeps /\ pendingEffects' = {}
    /\ handled' = 0
    /\ UNCHANGED <<registrations, sharedVars, attemptVars, startVars, countdownVars,
                   socketVars>>

\* the backend emits one signal: the socket calls every listener of the event
Signal(ev) ==
    /\ page # "none"
    /\ handled' = ListenerCount(socketListeners, ev)
    /\ UNCHANGED <<page, deps, pendingEffects, subscriptions, socketListeners, registrations,
                   sharedVars, attemptVars, startVars, countdownVars, socketVars>>

ListenerNext ==
    \/ \E p \in {"start", "attempt"} : MountPage(p)
    \/ Render
    \/ RunEffects
    \/ UnmountPage
    \/ \E ev \in SocketEvents : Signal(ev)

ListenerSpec == ListenerInit /\ [][ListenerNext]_vars

----------------------------------------------------------------------------
\* Properties of the listener effects (checked under ListenerSpec)

\* C30: on the shared socket a page has at most one listener per event name at
\* any time, whatever the sequence of effect re-runs (changes of isConnected,
\* isJoiningPairing, pairingCodeDisplay, the socket instance, the role), so one
\* incoming signal is handled at most once.
C30_OneListenerPerEvent ==
    /\ \A ev \in SocketEvents : ListenerCount(socketListeners, ev) <= 1
    /\ handled <= 1

\* the sender effect ran again for a second pairing code after earlier runs of
\* the effects, and the pairing_success that follows is handled once
C30_Witness ==
    /\ page = "start" /\ pendingEffects = {}
    /\ deps.role = "sender" /\ deps.pairingCodeDisplay = "PC2"
    /\ registrations = MaxRegistrations
    /\ ListenerCount(socketListeners, "pairing_success") = 1
    /\ handled = 1

====
